---- MODULE Spec2Model ----
(***************************************************************************)
(* TrainingManager (src/training_manager/interface.py): a wrapper around   *)
(* the Slack WebClient that composes message blocks, posts them and keeps  *)
(* one thread timestamp per job id in the dict _ts_holder.                 *)
(*                                                                         *)
(* Python values are modelled as follows: a str is a TLA+ string, None is  *)
(* the string "None", an f-string is the tuple of its literal pieces and   *)
(* interpolated values, a dict is the sequence of its (key, value) items   *)
(* in insertion order, an exception leaving a method is a Raise record.    *)
(* The Japanese literals of the header and preview texts are written as    *)
(* ASCII glosses.                                                          *)
(***************************************************************************)
EXTENDS Integers, Sequences, FiniteSets, TLC

VARIABLES
    notifier,    \* "none" before __init__, "ready" once it returned, "failed" once it raised
    channel_id,  \* self.channel_id
    ts_holder,   \* self._ts_holder, a function on JobIds; "None" where the dict has no key
    call,        \* the method invoked last, with its arguments
    sent,        \* the transport requests made by that invocation, each with its response
    ret,         \* what that invocation returned or raised
    threads,     \* concurrent callers sharing one instance: position and locals of each
    serialized   \* TRUE when the callers serialize their calls per job id

vars == <<notifier, channel_id, ts_holder, call, sent, ret, threads, serialized>>

----------------------------------------------------------------------------
(* Bounds of the model *)

MaxJobs == 2      \* job ids 1..MaxJobs
MaxTs == 2        \* distinct ts tokens the transport can return
MaxPairs == 12    \* largest field-map
MaxGroups == 2    \* longest optionalFieldGroups sequence
MaxBlocks == 3    \* longest blocks sequence given to send_rich_block

None == "None"

JobIds == 1..MaxJobs
TsValues == {ToString(i) : i \in 1..MaxTs}
ErrorCodes == {"invalid_auth", "channel_not_found"}
UserIds == {"U1", "U2"}
Callers == {"c1", "c2"}
LifecycleOps == {"send_training_start", "send_progress", "send_error", "send_result"}

----------------------------------------------------------------------------
(* The transport (slack_sdk.WebClient): every call either returns a        *)
(* response, raises SlackApiError carrying response["error"], or fails in  *)
(* some other way (a request or network error that is no SlackApiError).   *)

ChannelOf(user) == [U1 |-> "D01", U2 |-> "D02"][user]

ApiErrors == {[kind |-> "SlackApiError", data |-> e] : e \in ErrorCodes}
OtherFailure == [kind |-> "OtherError", data |-> None]
PostResponses ==
    {[kind |-> "ok", data |-> t] : t \in TsValues} \cup ApiErrors \cup {OtherFailure}
OpenResponses(user) ==
    {[kind |-> "ok", data |-> ChannelOf(user)]} \cup ApiErrors \cup {OtherFailure}

(* What a Python call produced. *)
Return(ok, value) == [kind |-> "return", ok |-> ok, value |-> value]
Raise(error) == [kind |-> "raise", ok |-> FALSE, value |-> error]
NotCalled == [kind |-> "none", ok |-> FALSE, value |-> None]

(* Optional[...] arguments whose value is a sequence. *)
NoneOpt == [none |-> TRUE, val |-> <<>>]
Some(v) == [none |-> FALSE, val |-> v]

----------------------------------------------------------------------------
(* Block primitives *)

GetHeaderBlock(text) ==
    [type |-> "header",
     text |-> [type |-> "plain_text", text |-> text, emoji |-> TRUE]]

GetBodyField(text) == [type |-> "mrkdwn", text |-> text]

GetBodyBlock(fields) == [type |-> "section", fields |-> fields]

GetDividerBlock == [type |-> "divider"]

NoneBlock == [type |-> "None"]

(* for i, fields in enumerate(fields_group): divider if i != 0, then section *)
RECURSIVE BodyBlocksLoop(_, _, _)
BodyBlocksLoop(fields_group, i, blocks) ==
    IF i >= Len(fields_group) THEN blocks
    ELSE LET withDivider == IF i # 0 THEN Append(blocks, GetDividerBlock) ELSE blocks
         IN BodyBlocksLoop(fields_group, i + 1,
                           Append(withDivider,
                                  [type |-> "section", fields |-> fields_group[i + 1]]))

GetBodyBlocks(fields_group) == BodyBlocksLoop(fields_group, 0, <<>>)

(* for block in blocks: if block is not None: composed_block.append(block) *)
RECURSIVE ComposeLoop(_, _, _)
ComposeLoop(blocks, k, composed_block) ==
    IF k > Len(blocks) THEN composed_block
    ELSE ComposeLoop(blocks, k + 1,
                     IF blocks[k] # NoneBlock THEN Append(composed_block, blocks[k])
                     ELSE composed_block)

ComposeBlocksKeepNone(blocks) == blocks

ComposeBlocks(blocks) == ComposeLoop(blocks, 1, <<>>)

----------------------------------------------------------------------------
(* Field rendering of the lifecycle sends *)

LastCappedIndex == 9

StartFieldText(key, value) == <<"*", key, ":* \n", value>>
ErrorFieldText(key, value) == <<"*", key, ":* ", value>>
ResultFieldText(key, value) == <<"*", key, "* : ", value>>

(* for i, (key, value) in enumerate(optional.items()): if i > 9: break; append *)
RECURSIVE CappedFieldsLoop(_, _, _)
CappedFieldsLoop(optional, i, body_fields) ==
    IF i >= Len(optional) THEN body_fields
    ELSE IF i > LastCappedIndex THEN body_fields
    ELSE CappedFieldsLoop(optional, i + 1,
             Append(body_fields,
                    GetBodyField(StartFieldText(optional[i + 1][1], optional[i + 1][2]))))

CappedFieldsOffByOne(optional) ==
    [k \in 1..(IF Len(optional) > LastCappedIndex + 2 THEN LastCappedIndex + 2
               ELSE Len(optional)) |->
        GetBodyField(StartFieldText(optional[k][1], optional[k][2]))]

CappedFields(optional) == CappedFieldsLoop(optional, 0, <<>>)

(* if optionals is not None: for optional in optionals: body_groups.append(...) *)
BodyGroups(optionals) ==
    IF optionals.none THEN <<>>
    ELSE [g \in 1..Len(optionals.val) |-> CappedFields(optionals.val[g])]

(* for key, value in optional.items(): body_fields.append(...), no cap *)
ErrorFields(optional) ==
    IF optional.none THEN <<>>
    ELSE [k \in 1..Len(optional.val) |->
            GetBodyField(ErrorFieldText(optional.val[k][1], optional.val[k][2]))]

ResultFields(optional) ==
    [k \in 1..Len(optional) |->
        GetBodyField(ResultFieldText(optional[k][1], optional[k][2]))]

----------------------------------------------------------------------------
(* Thread-timestamp bookkeeping *)

GetTsAlwaysNone(holder, id) == None

(* self._ts_holder.get(f"{id}") *)
GetTs(holder, id) == holder[id]

StoreTsOverwrite(holder, id, ts, ts_or_error) == [holder EXCEPT ![id] = ts_or_error]

StoreTsNever(holder, id, ts, ts_or_error) == holder

StoreTsClobber(holder, id, ts, ts_or_error) ==
    IF ts = None THEN [j \in DOMAIN holder |-> ts_or_error] ELSE holder

(* if ts is None: self._ts_holder[f"{id}"] = ts_or_error *)
StoreTs(holder, id, ts, ts_or_error) ==
    IF ts = None THEN [holder EXCEPT ![id] = ts_or_error] ELSE holder

----------------------------------------------------------------------------
(* try: response = client.<api>(...)  except SlackApiError as e:           *)
(*     return (False, e.response["error"])                                 *)
(* return (True, response["ts"])                                           *)
(* Any failure that is no SlackApiError leaves the method as an exception. *)

SendPlainMessageResult(response) ==
    IF response.kind = "ok" THEN Return(TRUE, response.data)
    ELSE IF response.kind = "SlackApiError" THEN Return(FALSE, response.data)
    ELSE Raise(response.kind)

SendRichBlockResult(response) ==
    IF response.kind = "ok" THEN Return(TRUE, response.data)
    ELSE IF response.kind = "SlackApiError" THEN Return(FALSE, response.data)
    ELSE Raise(response.kind)

SendFileResult(response) ==
    IF response.kind = "ok" THEN Return(TRUE, response.data)
    ELSE IF response.kind = "SlackApiError" THEN Return(FALSE, response.data)
    ELSE Raise(response.kind)

SendRichBlockRequest(mobile_text, blocks, ts, reply_broadcast, icon_emoji) ==
    [api |-> "chat_postMessage",
     channel |-> channel_id,
     text |-> mobile_text,
     blocks |-> ComposeBlocks(blocks),
     thread_ts |-> ts,
     reply_broadcast |-> reply_broadcast,
     icon_emoji |-> icon_emoji]

GetChannelIdDeferred(response) ==
    IF response.kind = "ok" THEN Return(TRUE, response.data)
    ELSE Return(TRUE, None)

(* _get_channel_id: SlackApiError becomes ValueError, the rest propagates *)
GetChannelId(response) ==
    IF response.kind = "ok" THEN Return(TRUE, response.data)
    ELSE IF response.kind = "SlackApiError" THEN Raise("ValueError")
    ELSE Raise(response.kind)

CheckPathTypeOnly(path) ==
    IF path.type \notin {"str", "Path"} THEN "TypeError" ELSE "ok"

(* isinstance tests, then path.is_file() *)
CheckPath(path) ==
    IF path.type \notin {"str", "Path"} THEN "TypeError"
    ELSE IF ~path.is_file THEN "ValueError"
    ELSE "ok"

----------------------------------------------------------------------------
(* Arguments the callers pass *)

(* A dict with n items, as the ordered sequence of its (key, value) pairs. *)
FieldMap(n) == [k \in 1..n |-> <<ToString((k * 5) % 17), ToString(100 + k)>>]

FieldMaps == {FieldMap(n) : n \in 0..MaxPairs}

AllFieldGroups ==
    {NoneOpt} \cup
    {Some(s) : s \in UNION {[1..g -> FieldMaps] : g \in 0..MaxGroups}}

FewFieldGroups == {NoneOpt, Some(<<FieldMap(2), FieldMap(1)>>)}

BlockChoices ==
    {NoneBlock, GetDividerBlock, GetHeaderBlock(<<"title">>),
     GetBodyBlock(<<GetBodyField(<<"body">>)>>)}

AllBlockSeqs == UNION {[1..n -> BlockChoices] : n \in 0..MaxBlocks}

FewBlockSeqs == {<<NoneBlock, GetDividerBlock>>}

Paths ==
    {[type |-> "str", name |-> "loss.png", is_file |-> TRUE],
     [type |-> "str", name |-> "missing.png", is_file |-> FALSE],
     [type |-> "Path", name |-> "loss.png", is_file |-> TRUE],
     [type |-> "Path", name |-> "logs/", is_file |-> FALSE],
     [type |-> "int", name |-> "42", is_file |-> FALSE]}

OptTs == {None} \cup TsValues

----------------------------------------------------------------------------
(* The operations *)

(* __init__ *)
Construct(user_id, response) ==
    LET r == GetChannelId(response)
    IN /\ notifier = "none"
       /\ call' = [op |-> "__init__", user_id |-> user_id]
       /\ sent' = <<[request |-> [api |-> "conversations_open", users |-> user_id],
                     response |-> response]>>
       /\ ret' = IF r.kind = "return" THEN Return(TRUE, None) ELSE r
       /\ notifier' = IF r.kind = "return" THEN "ready" ELSE "failed"
       /\ channel_id' = IF r.kind = "return" THEN r.value ELSE channel_id
       /\ UNCHANGED <<ts_holder, threads, serialized>>

SendPlainMessage(message, response) ==
    /\ notifier = "ready"
    /\ call' = [op |-> "send_plain_message", message |-> message]
    /\ sent' = <<[request |-> [api |-> "chat_postMessage", channel |-> channel_id,
                               text |-> message],
                  response |-> response]>>
    /\ ret' = SendPlainMessageResult(response)
    /\ UNCHANGED <<notifier, channel_id, ts_holder, threads, serialized>>

SendRichBlock(mobile_text, blocks, ts, reply_broadcast, icon_emoji, response) ==
    /\ notifier = "ready"
    /\ call' = [op |-> "send_rich_block", mobile_text |-> mobile_text, blocks |-> blocks,
                ts |-> ts, reply_broadcast |-> reply_broadcast, icon_emoji |-> icon_emoji]
    /\ sent' = <<[request |-> SendRichBlockRequest(mobile_text, blocks, ts,
                                                   reply_broadcast, icon_emoji),
                  response |-> response]>>
    /\ ret' = SendRichBlockResult(response)
    /\ UNCHANGED <<notifier, channel_id, ts_holder, threads, serialized>>

SendFile(path, title, text, ts, response) ==
    LET checked == CheckPath(path)
    IN /\ notifier = "ready"
       /\ call' = [op |-> "send_file", path |-> path, title |-> title, text |-> text,
                   ts |-> ts]
       /\ IF checked # "ok"
          THEN /\ sent' = <<>>
               /\ ret' = Raise(checked)
          ELSE /\ sent' = <<[request |-> [api |-> "files_upload", file |-> path.name,
                                          channels |-> channel_id, title |-> title,
                                          initial_comment |-> text, thread_ts |-> ts],
                             response |-> response]>>
               /\ ret' = SendFileResult(response)
       /\ UNCHANGED <<notifier, channel_id, ts_holder, threads, serialized>>

(* The tail shared, statement for statement, by the four lifecycle sends:  *)
(*   ts = self._ts_holder.get(f"{id}")                                     *)
(*   result, ts_or_error = self.send_rich_block(...)                       *)
(*   if not result: return (False, ts_or_error)                            *)
(*   if ts is None: self._ts_holder[f"{id}"] = ts_or_error                 *)
(*   return (True, "")                                                     *)
LookupPostStore(id, mobile_text, blocks, reply_broadcast, icon_emoji, response) ==
    LET ts == GetTs(ts_holder, id)
        r == SendRichBlockResult(response)
    IN /\ sent' = <<[request |-> SendRichBlockRequest(mobile_text, blocks, ts,
                                                      reply_broadcast, icon_emoji),
                     response |-> response]>>
       /\ IF r.kind = "raise"
          THEN ret' = r /\ ts_holder' = ts_holder
          ELSE IF ~r.ok
          THEN ret' = Return(FALSE, r.value) /\ ts_holder' = ts_holder
          ELSE ret' = Return(TRUE, "") /\ ts_holder' = StoreTs(ts_holder, id, ts, r.value)

SendTrainingStart(id, optionals, response) ==
    /\ notifier = "ready"
    /\ call' = [op |-> "send_training_start", id |-> id, optionals |-> optionals]
    /\ LookupPostStore(id, <<ToString(id), " training has started">>,
                       <<GetHeaderBlock(<<"Training start --- ", ToString(id)>>),
                         GetDividerBlock>> \o GetBodyBlocks(BodyGroups(optionals)),
                       None, None, response)
    /\ UNCHANGED <<notifier, channel_id, threads, serialized>>

SendProgress(id, optionals, response) ==
    /\ notifier = "ready"
    /\ call' = [op |-> "send_progress", id |-> id, optionals |-> optionals]
    /\ LookupPostStore(id, <<ToString(id), " progress report">>,
                       <<GetHeaderBlock(<<"Progress --- ", ToString(id)>>),
                         GetDividerBlock>> \o GetBodyBlocks(BodyGroups(optionals)),
                       None, None, response)
    /\ UNCHANGED <<notifier, channel_id, threads, serialized>>

SendError(id, optional, reply_broadcast, response) ==
    /\ notifier = "ready"
    /\ call' = [op |-> "send_error", id |-> id, optional |-> optional,
                reply_broadcast |-> reply_broadcast]
    /\ LookupPostStore(id, <<ToString(id), " an error occurred">>,
                       <<GetHeaderBlock(<<"An error occurred --- ", ToString(id)>>),
                         GetDividerBlock, GetBodyBlock(ErrorFields(optional))>>,
                       reply_broadcast, ":warning:", response)
    /\ UNCHANGED <<notifier, channel_id, threads, serialized>>

SendResult(id, optional, response) ==
    /\ notifier = "ready"
    /\ call' = [op |-> "send_result", id |-> id, optional |-> optional]
    /\ LookupPostStore(id, <<ToString(id), " training has finished">>,
                       <<GetHeaderBlock(<<"Training finished --- ", ToString(id)>>),
                         GetDividerBlock, GetBodyBlock(ResultFields(optional))>>,
                       None, None, response)
    /\ UNCHANGED <<notifier, channel_id, threads, serialized>>

----------------------------------------------------------------------------
(* One caller at a time: every method runs to completion before the next. *)

IdleThread == [pc |-> "idle", id |-> 0, ts |-> None, res |-> NotCalled]

Init ==
    /\ notifier = "none"
    /\ channel_id = None
    /\ ts_holder = [j \in JobIds |-> None]
    /\ call = [op |-> "none"]
    /\ sent = <<>>
    /\ ret = NotCalled
    /\ threads = [c \in Callers |-> IdleThread]
    /\ serialized = TRUE

DoConstruct == \E u \in UserIds : \E r \in OpenResponses(u) : Construct(u, r)

DoSendPlainMessage == \E r \in PostResponses : SendPlainMessage(<<"hello">>, r)

DoSendRichBlock ==
    \E b \in FewBlockSeqs, t \in {None, "1"}, r \in PostResponses :
        SendRichBlock(<<"preview">>, b, t, IF t = None THEN "None" ELSE "True", None, r)

DoSendFile ==
    \E p \in Paths, t \in {None, "1"}, r \in PostResponses :
        /\ t # None => p.type = "str"
        /\ SendFile(p, "loss curve", None, t, r)

DoSendTrainingStart ==
    \E j \in JobIds, o \in FewFieldGroups, r \in PostResponses : SendTrainingStart(j, o, r)

DoSendProgress ==
    \E j \in JobIds, r \in PostResponses :
        SendProgress(j, Some(<<FieldMap(1)>>), r)

DoSendError ==
    \E j \in JobIds, rb \in {"True", "False"}, r \in PostResponses :
        SendError(j, Some(FieldMap(2)), rb, r)

DoSendResult ==
    \E j \in JobIds, r \in PostResponses : SendResult(j, FieldMap(2), r)

Next ==
    \/ DoConstruct
    \/ DoSendPlainMessage
    \/ DoSendRichBlock
    \/ DoSendFile
    \/ DoSendTrainingStart
    \/ DoSendProgress
    \/ DoSendError
    \/ DoSendResult

Spec == Init /\ [][Next]_vars

----------------------------------------------------------------------------
(* Composition: one send on a freshly constructed instance, with the block *)
(* and field-map arguments drawn from the whole bounded range.             *)

InitBlocks ==
    /\ notifier = "ready"
    /\ channel_id = ChannelOf("U1")
    /\ ts_holder = [j \in JobIds |-> None]
    /\ call = [op |-> "none"]
    /\ sent = <<>>
    /\ ret = NotCalled
    /\ threads = [c \in Callers |-> IdleThread]
    /\ serialized = TRUE

ComposeRichBlock ==
    /\ call.op = "none"
    /\ \E b \in AllBlockSeqs, t \in OptTs, r \in PostResponses :
          SendRichBlock(<<"preview">>, b, t, "None", None, r)

ComposeTrainingStart ==
    /\ call.op = "none"
    /\ \E j \in JobIds, o \in AllFieldGroups, r \in PostResponses :
          SendTrainingStart(j, o, r)

ComposeProgress ==
    /\ call.op = "none"
    /\ \E j \in JobIds, o \in AllFieldGroups, r \in PostResponses :
          SendProgress(j, o, r)

ComposeError ==
    /\ call.op = "none"
    /\ \E j \in JobIds, o \in {NoneOpt} \cup {Some(m) : m \in FieldMaps},
          rb \in {"True", "False"}, r \in PostResponses :
          SendError(j, o, rb, r)

ComposeResult ==
    /\ call.op = "none"
    /\ \E j \in JobIds, m \in FieldMaps, r \in PostResponses : SendResult(j, m, r)

NextBlocks ==
    \/ ComposeRichBlock
    \/ ComposeTrainingStart
    \/ ComposeProgress
    \/ ComposeError
    \/ ComposeResult

SpecBlocks == InitBlocks /\ [][NextBlocks]_vars

----------------------------------------------------------------------------
(* Two callers sharing one instance, each running lifecycle sends (the     *)
(* four share the steps below).  A lifecycle send is three steps: the      *)
(* dict lookup, the blocking transport call, and the check-and-store that  *)
(* follows it; the callers' steps interleave freely.  When serialized, a   *)
(* caller starts a send for a job id only while no other caller is inside  *)
(* a send for that id.                                                     *)

InitRace ==
    /\ notifier = "ready"
    /\ channel_id = ChannelOf("U1")
    /\ ts_holder = [j \in JobIds |-> None]
    /\ call = [op |-> "none"]
    /\ sent = <<>>
    /\ ret = NotCalled
    /\ threads = [c \in Callers |-> IdleThread]
    /\ serialized \in BOOLEAN

InsideSend(c, id) == threads[c].pc \in {"lookedup", "posted"} /\ threads[c].id = id

(* ts = self._ts_holder.get(f"{id}") *)
RaceLookup(c, id) ==
    /\ threads[c].pc \in {"idle", "done"}
    /\ serialized => \A d \in Callers \ {c} : ~InsideSend(d, id)
    /\ threads' = [threads EXCEPT ![c] =
                      [pc |-> "lookedup", id |-> id,
                       ts |-> GetTs(ts_holder, id), res |-> NotCalled]]
    /\ UNCHANGED <<notifier, channel_id, ts_holder, call, sent, ret, serialized>>

(* result, ts_or_error = self.send_rich_block(..., ts) *)
RacePost(c, response) ==
    LET r == SendRichBlockResult(response)
    IN /\ threads[c].pc = "lookedup"
       /\ threads' = [threads EXCEPT ![c].res = r,
                                     ![c].pc = IF r.kind = "raise" THEN "done" ELSE "posted"]
       /\ UNCHANGED <<notifier, channel_id, ts_holder, call, sent, ret, serialized>>

(* if not result: return ...; if ts is None: store; return (True, "") *)
RaceStore(c) ==
    LET t == threads[c]
    IN /\ t.pc = "posted"
       /\ ts_holder' = IF t.res.ok THEN StoreTs(ts_holder, t.id, t.ts, t.res.value)
                       ELSE ts_holder
       /\ threads' = [threads EXCEPT ![c].pc = "done"]
       /\ UNCHANGED <<notifier, channel_id, call, sent, ret, serialized>>

NextRace ==
    \/ \E c \in Callers, j \in JobIds : RaceLookup(c, j)
    \/ \E c \in Callers, r \in PostResponses : RacePost(c, r)
    \/ \E c \in Callers : RaceStore(c)

SpecRace == InitRace /\ [][NextRace]_vars

----------------------------------------------------------------------------
(* Properties *)

PostedThreadTs == sent[1].request.thread_ts

ChannelArg(request) ==
    IF request.api = "files_upload" THEN request.channels ELSE request.channel

(* C1: once _ts_holder holds a ts T for job id J (stored by a successful   *)
(* send_training_start), every later lifecycle send for J hands exactly T  *)
(* to the transport as thread_ts, and T stays the entry of J whatever ts   *)
(* that later call returns.                                                *)
ThreadAnchorReused ==
    [][\A j \in JobIds :
          (ts_holder[j] # None /\ call'.op \in LifecycleOps /\ call'.id = j)
          => /\ Len(sent') = 1
             /\ sent'[1].request.thread_ts = ts_holder[j]
             /\ ts_holder'[j] = ts_holder[j]]_vars

(* A follow-up send that succeeded as a reply in the stored thread while   *)
(* the transport returned a different ts for the reply itself.             *)
ReplyInStoredThread ==
    /\ call.op \in {"send_progress", "send_error", "send_result"}
    /\ ret = Return(TRUE, "")
    /\ PostedThreadTs \in TsValues
    /\ sent[1].response.data # PostedThreadTs
    /\ ts_holder[call.id] = PostedThreadTs

(* C2: _ts_holder is write-once per job id: an entry, once present, is     *)
(* never changed and never removed by any call.                            *)
WriteOnce ==
    [][\A j \in JobIds : ts_holder[j] # None => ts_holder'[j] = ts_holder[j]]_vars

(* A second successful send_training_start for a job id whose entry was    *)
(* kept although the transport returned another ts.                        *)
EntryKeptOnRestart ==
    /\ call.op = "send_training_start"
    /\ ret = Return(TRUE, "")
    /\ PostedThreadTs # None
    /\ sent[1].response.kind = "ok"
    /\ ts_holder[call.id] = PostedThreadTs
    /\ ts_holder[call.id] # sent[1].response.data

(* C3: a lifecycle send whose transport call fails returns (False, code)   *)
(* and leaves _ts_holder as it was; and a successful lifecycle send for a  *)
(* job id without entry posts with no thread_ts and stores the returned ts.*)
FailedSendReturnsAndKeepsState ==
    [][call'.op \in LifecycleOps =>
          /\ sent'[1].response.kind # "ok"
                => /\ ret'.kind = "return"
                   /\ ~ret'.ok
                   /\ ts_holder' = ts_holder
          /\ (sent'[1].response.kind = "ok" /\ ts_holder[call'.id] = None)
                => /\ sent'[1].request.thread_ts = None
                   /\ ts_holder'[call'.id] = sent'[1].response.data]_vars

(* C4: every failure of the transport call of a send method comes back as  *)
(* a (False, code) result; none leaves the method as an exception.         *)
TransportFailuresReturned ==
    (/\ call.op \in LifecycleOps \cup {"send_plain_message", "send_rich_block", "send_file"}
     /\ Len(sent) = 1
     /\ sent[1].response.kind # "ok")
    => /\ ret.kind = "return"
       /\ ~ret.ok
       /\ sent[1].response.kind = "SlackApiError" => ret.value = sent[1].response.data

(* C5: send_file with a path that is of an unsupported type or is not an   *)
(* existing regular file raises (TypeError for the type, ValueError for    *)
(* the file test; the specification calls both InvalidPathError) and makes *)
(* no transport request.                                                   *)
InvalidPathError == {"TypeError", "ValueError"}

BadPathRaisesBeforeUpload ==
    (call.op = "send_file" /\ (call.path.type \notin {"str", "Path"} \/ ~call.path.is_file))
    => /\ ret.kind = "raise"
       /\ ret.value \in InvalidPathError
       /\ sent = <<>>

MissingFileRejected ==
    /\ call.op = "send_file"
    /\ call.path.type = "str"
    /\ ~call.path.is_file
    /\ ret = Raise("ValueError")
    /\ sent = <<>>

(* C6: when conversations_open is rejected, __init__ raises ValueError and *)
(* no instance exists; no send runs unless __init__ returned; and after it *)
(* returned, channel_id never changes and is the channel of every request. *)
ChannelResolvedOrNoInstance ==
    [][/\ (notifier = "none" /\ sent'[1].response.kind = "SlackApiError")
            => notifier' = "failed" /\ ret' = Raise("ValueError")
       /\ notifier # "ready"
            => /\ call'.op = "__init__"
               /\ ts_holder' = ts_holder
               /\ notifier' = "ready"
                    => /\ sent'[1].response.kind = "ok"
                       /\ channel_id' = sent'[1].response.data
       /\ notifier = "ready"
            => /\ notifier' = "ready"
               /\ channel_id' = channel_id
               /\ \A k \in 1..Len(sent') : ChannelArg(sent'[k].request) = channel_id]_vars

ConstructionRejected ==
    /\ notifier = "failed"
    /\ call.op = "__init__"
    /\ sent[1].response.kind = "SlackApiError"
    /\ ret = Raise("ValueError")

(* C7: send_training_start and send_progress render every field-map of n  *)
(* pairs as one section block holding the first min(n, 10) pairs in the    *)
(* map's order; send_error and send_result render their single field-map   *)
(* with all n pairs.                                                       *)
Smaller(a, b) == IF a < b THEN a ELSE b

FieldGroupTruncation ==
    /\ (call.op \in {"send_training_start", "send_progress"} /\ ~call.optionals.none)
        => LET groups == call.optionals.val
               blocks == sent[1].request.blocks
           IN \A g \in 1..Len(groups) :
                 LET section == blocks[2 * g + 1]
                     m == Smaller(Len(groups[g]), 10)
                 IN /\ section.type = "section"
                    /\ Len(section.fields) = m
                    /\ \A k \in 1..m :
                          section.fields[k] =
                             [type |-> "mrkdwn",
                              text |-> <<"*", groups[g][k][1], ":* \n", groups[g][k][2]>>]
    /\ (call.op = "send_error" /\ ~call.optional.none)
        => LET section == sent[1].request.blocks[3]
               map == call.optional.val
           IN /\ Len(sent[1].request.blocks) = 3
              /\ section.type = "section"
              /\ Len(section.fields) = Len(map)
              /\ \A k \in 1..Len(map) :
                    section.fields[k] =
                       [type |-> "mrkdwn", text |-> <<"*", map[k][1], ":* ", map[k][2]>>]
    /\ call.op = "send_result"
        => LET section == sent[1].request.blocks[3]
               map == call.optional
           IN /\ Len(sent[1].request.blocks) = 3
              /\ section.type = "section"
              /\ Len(section.fields) = Len(map)
              /\ \A k \in 1..Len(map) :
                    section.fields[k] =
                       [type |-> "mrkdwn", text |-> <<"*", map[k][1], "* : ", map[k][2]>>]

(* send_training_start given a field-map of 12 pairs posted a section of   *)
(* exactly 10 fields.                                                      *)
TwelvePairsGiveTenFields ==
    /\ call.op = "send_training_start"
    /\ ~call.optionals.none
    /\ Len(call.optionals.val) = 1
    /\ Len(call.optionals.val[1]) = 12
    /\ Len(sent[1].request.blocks[3].fields) = 10

(* C8: the blocks send_rich_block posts are exactly the non-None entries   *)
(* of its blocks argument, in their original relative order.               *)
NonNullBlocksInOrder ==
    call.op = "send_rich_block"
    => LET given == call.blocks
           posted == sent[1].request.blocks
           kept == {i \in 1..Len(given) : given[i] # NoneBlock}
       IN /\ Len(posted) = Cardinality(kept)
          /\ \A i \in kept : posted[Cardinality({j \in kept : j <= i})] = given[i]

(* A None entry between two different blocks was dropped and the two kept  *)
(* in order.                                                               *)
NoneBetweenBlocksDropped ==
    /\ call.op = "send_rich_block"
    /\ Len(call.blocks) = 3
    /\ call.blocks[1] # NoneBlock
    /\ call.blocks[2] = NoneBlock
    /\ call.blocks[3] # NoneBlock
    /\ call.blocks[1] # call.blocks[3]
    /\ sent[1].request.blocks = <<call.blocks[1], call.blocks[3]>>

(* C9: two callers that share the instance can both look up "no ts" for    *)
(* the same job id before either stores, both post with no thread_ts and   *)
(* both write the entry; when calls are serialized per job id, no two      *)
(* callers ever both open a thread for one job id.                         *)
OpenedThread(c, j) ==
    /\ threads[c].pc \in {"posted", "done"}
    /\ threads[c].id = j
    /\ threads[c].ts = None
    /\ threads[c].res.kind = "return"
    /\ threads[c].res.ok

SerializedCallsOpenOneThread ==
    serialized
    => ~\E j \in JobIds : \E c, d \in Callers :
           c # d /\ OpenedThread(c, j) /\ OpenedThread(d, j)

RacedDoubleThread ==
    /\ ~serialized
    /\ \E j \in JobIds :
          /\ \A c \in Callers : OpenedThread(c, j) /\ threads[c].pc = "done"
          /\ threads["c1"].res.value # threads["c2"].res.value
          /\ ts_holder[j] \in {threads["c1"].res.value, threads["c2"].res.value}

(* C10: send_plain_message, send_rich_block and send_file leave _ts_holder *)
(* unchanged; a lifecycle send for job id J leaves the entry of every      *)
(* other job id unchanged.                                                 *)
ThreadStateFrame ==
    [][/\ call'.op \in {"send_plain_message", "send_rich_block", "send_file"}
            => ts_holder' = ts_holder
       /\ call'.op \in LifecycleOps
            => \A k \in JobIds \ {call'.id} : ts_holder'[k] = ts_holder[k]]_vars

(* A lifecycle send stored a new entry while another job id kept its own,  *)
(* different entry.                                                        *)
OtherEntryUntouched ==
    /\ call.op \in LifecycleOps
    /\ ret = Return(TRUE, "")
    /\ PostedThreadTs = None
    /\ ts_holder[call.id] = sent[1].response.data
    /\ \E k \in JobIds \ {call.id} : ts_holder[k] \notin {None, ts_holder[call.id]}

====
